---- MODULE Spec2Model ----
(***************************************************************************)
(* Model of serena.lineage.recorder: the upward search for a lineage       *)
(* store (find_lineage_db), the active-task query (get_active_task) and    *)
(* the change recorder (record_change), together with the filesystem and   *)
(* the SQLite store they act on.                                           *)
(*                                                                         *)
(* Directories are numbered along one root-to-leaf path: 1 is the          *)
(* filesystem root and d - 1 is the parent of d.  Every value that Python  *)
(* represents as None-or-something is a record with a "tag" field.         *)
(***************************************************************************)
EXTENDS Integers, Sequences, FiniteSets, TLC

\* ---------------------------------------------------------------- bounds
\* Depth of the directory path that is modelled (root = 1).
MaxDepth == 3
\* Depth of the working directory in the behaviours that run beside the
\* external process (at most MaxDepth).
WorkDepth == 2
\* Number of public calls made in one behaviour.
MaxCalls == 2
\* Number of steps the external process (the tooling that creates and
\* deletes the marker files) takes in one behaviour.
MaxExternal == 1

Dirs == 1..MaxDepth

\* ---------------------------------------------------------------- values
None == [tag |-> "None"]
Pending == [tag |-> "pending"]
Raised(e) == [tag |-> "raise", exc |-> e]
Str(s) == [tag |-> "str", s |-> s]
PathOf(d, n) == [tag |-> "path", dir |-> d, name |-> n]

\* What may sit at <dir>/.spectrena/lineage.db: nothing, a directory, a
\* regular file without the lineage schema (an empty or foreign file), or a
\* regular file holding the schema.
DbKinds == {"none", "dir", "blank", "store"}
\* What may sit at <dir>/.spectrena/lineage.
LinKinds == {"none", "dir", "file"}

IsRegularFile(k) == k \in {"blank", "store"}

\* Content strings handed to record_change: absent, empty, a plain string,
\* and a string holding a lone surrogate (str.encode() rejects it).
Surrogate == "\\ud800"
Contents == {None, Str(""), Str("a"), Str(Surrogate)}

\* hashlib.sha256(b).hexdigest() for the encodable contents, as the eight
\* 32-bit words of the digest, eight hexadecimal characters each.
Sha256Hex(s) ==
    CASE s = "" -> <<"e3b0c442", "98fc1c14", "9afbf4c8", "996fb924",
                     "27ae41e4", "649b934c", "a495991b", "7852b855">>
      [] s = "a" -> <<"ca978112", "ca1bbdca", "fac231b3", "9a23dc4d",
                      "a786eff8", "147c4e72", "b9807785", "afee48bb">>

\* The NULL of a hash column; a stored digest is never of length zero.
NullHash == << >>

\* ---------------------------------------------------------------- schema
\* The tasks and plans tables of every store (owned by the task tooling):
\* T1 has a plan with a spec, T2 names a plan that has no row, and no row
\* exists for T3.
Null == "NULL"
tasks == {[task_id |-> "T1", title |-> "first", plan_id |-> "P1"],
          [task_id |-> "T2", title |-> "second", plan_id |-> "P9"]}
plans == {[plan_id |-> "P1", spec_id |-> "S1"]}

\* The contents phase_state may have when the query reads it.
PhaseStateTables ==
    { {},
      {[id |-> 1, current_task_id |-> Null]},
      {[id |-> 1, current_task_id |-> "T1"]},
      {[id |-> 1, current_task_id |-> "T2"]},
      {[id |-> 1, current_task_id |-> "T3"]},
      {[id |-> 2, current_task_id |-> "T1"]},
      {[id |-> 1, current_task_id |-> Null], [id |-> 2, current_task_id |-> "T2"]} }

\* A row that a store created before the behaviour starts already holds.
SeedRow == [task_id |-> "CORE-000-T00", file_path |-> "src/seed.py",
            symbol_fqn |-> Null, change_type |-> "create",
            tool_used |-> "create_text_file",
            old_content_hash |-> NullHash, new_content_hash |-> NullHash,
            timestamp |-> 0]

\* ---------------------------------------------------------------- state
VARIABLES
    fs,            \* [Dirs -> [db, lin]]: the marker entries of each directory
    code_changes,  \* [Dirs -> Seq(row)]: committed rows of the store file at d
    before,        \* code_changes as it would be without the running call
    cwd,           \* the process's working directory
    op,            \* the public operation that is running
    args,          \* its arguments
    pc,            \* its position
    i,             \* index of the loop of find_lineage_db into the candidates
    db_path,       \* what find_lineage_db returned to the running call
    hashes,        \* old_hash and new_hash of record_change
    conn,          \* the sqlite3 connection of the running call
    exc,           \* the exception in flight inside try/finally
    result,        \* the value the try block is about to return
    phase_state,   \* the phase_state table as the query read it
    ret,           \* the outcome of the call: a value, None or an exception
    opened,        \* connections opened by the running call
    nCalls,        \* calls started
    nExternal      \* steps of the external process

vars == <<fs, code_changes, before, cwd, op, args, pc, i, db_path, hashes,
          conn, exc, result, phase_state, ret, opened, nCalls, nExternal>>

Closed == [open |-> FALSE]
NoArgs == [old_content |-> None, new_content |-> None]
NoHashes == [old |-> NullHash, new |-> NullHash]

\* ------------------------------------------------------- find_lineage_db
\* Mutant of Parents: the candidates from the root downwards.
ParentsRootFirst(current) == [j \in 1..current |-> j]

\* [current, *list(current.parents)]: nearest first, the root last.
Parents(current) == [j \in 1..current |-> current - j + 1]

\* Path.exists(): any kind of entry.
Exists(k) == k # "none"
\* Path.is_dir()
IsDir(k) == k = "dir"

\* sqlite_path.exists()
SqliteMatch(entry) == Exists(entry.db)
\* surreal_path.exists() and surreal_path.is_dir()
SurrealMatch(entry) == Exists(entry.lin) /\ IsDir(entry.lin)

\* str(db_path).endswith(".db"): the last component decides.
EndsWithDb(p) == p.tag = "path" /\ p.name = "lineage.db"

Locals ==
    /\ i' = 1
    /\ db_path' = Pending
    /\ hashes' = NoHashes
    /\ conn' = Closed
    /\ exc' = "none"
    /\ result' = None
    /\ phase_state' = {}
    /\ opened' = 0
    /\ before' = code_changes
    /\ nCalls' = nCalls + 1

\* Path.cwd(): raises FileNotFoundError when the working directory has been
\* removed; nothing in the three operations handles it.
EnterSearch(cwdResolves) ==
    IF cwdResolves
    THEN pc' = "sqlite" /\ ret' = Pending
    ELSE pc' = "done" /\ ret' = Raised("FileNotFoundError")

CanCall == pc \in {"idle", "done"} /\ nCalls < MaxCalls

Call_find_lineage_db ==
    /\ CanCall
    /\ \E cwdResolves \in BOOLEAN : EnterSearch(cwdResolves)
    /\ op' = "find_lineage_db"
    /\ args' = NoArgs
    /\ Locals
    /\ UNCHANGED <<fs, code_changes, cwd, nExternal>>

CheckSqlite ==
    /\ pc = "sqlite"
    /\ LET parent == Parents(cwd)[i]
       IN IF SqliteMatch(fs[parent])
          THEN /\ db_path' = PathOf(parent, "lineage.db")
               /\ pc' = "found"
          ELSE /\ pc' = "surreal"
               /\ UNCHANGED db_path
    /\ UNCHANGED <<fs, code_changes, before, cwd, op, args, i, hashes, conn,
                   exc, result, phase_state, ret, opened, nCalls, nExternal>>

CheckSurreal ==
    /\ pc = "surreal"
    /\ LET parent == Parents(cwd)[i]
       IN IF SurrealMatch(fs[parent])
          THEN /\ db_path' = PathOf(parent, "lineage")
               /\ pc' = "found"
               /\ UNCHANGED i
          ELSE IF i < Len(Parents(cwd))
               THEN /\ i' = i + 1
                    /\ pc' = "sqlite"
                    /\ UNCHANGED db_path
               ELSE /\ db_path' = None
                    /\ pc' = "found"
                    /\ UNCHANGED i
    /\ UNCHANGED <<fs, code_changes, before, cwd, op, args, hashes, conn,
                   exc, result, phase_state, ret, opened, nCalls, nExternal>>

FindReturn ==
    /\ pc = "found"
    /\ op = "find_lineage_db"
    /\ ret' = db_path
    /\ pc' = "done"
    /\ UNCHANGED <<fs, code_changes, before, cwd, op, args, i, db_path,
                   hashes, conn, exc, result, phase_state, opened, nCalls,
                   nExternal>>

\* ------------------------------------------------------------ connection
\* sqlite3.connect(db_path).  A directory cannot be opened; a path that no
\* longer names anything is created as an empty file when the open
\* succeeds (sqlite3 opens read-write-create).  A failed open raises
\* sqlite3.OperationalError outside the inner try, so nothing is to close.
Connect(ok) ==
    LET d == db_path.dir
    IN /\ ok => fs[d].db # "dir"
       /\ IF ok
          THEN /\ conn' = [open |-> TRUE, dir |-> d, pending |-> << >>]
               /\ opened' = opened + 1
               /\ fs' = IF fs[d].db = "none"
                        THEN [fs EXCEPT ![d].db = "blank"]
                        ELSE fs
               /\ pc' = "execute"
               /\ UNCHANGED ret
          ELSE /\ ret' = None
               /\ pc' = "done"
               /\ UNCHANGED <<conn, opened, fs>>

\* Mutant of CloseAndLeave: close() at the end of the try block instead of
\* in a finally clause, so an exception skips it.
CloseOnSuccessOnly ==
    /\ conn' = IF exc = "sqlite3.Error" THEN conn ELSE Closed
    /\ ret' = IF exc = "sqlite3.Error" THEN None ELSE result
    /\ pc' = "done"

\* finally: conn.close() drops whatever was not committed; then the
\* except clause maps sqlite3.Error to None, or the try block's value is
\* returned.
CloseAndLeave ==
    /\ conn' = Closed
    /\ ret' = IF exc = "sqlite3.Error" THEN None ELSE result
    /\ pc' = "done"

\* -------------------------------------------------------- get_active_task
Call_get_active_task ==
    /\ CanCall
    /\ \E cwdResolves \in BOOLEAN : EnterSearch(cwdResolves)
    /\ op' = "get_active_task"
    /\ args' = NoArgs
    /\ Locals
    /\ UNCHANGED <<fs, code_changes, cwd, nExternal>>

\* if not db_path: return None; the ".db" branch; the SurrealDB stub.
GetDispatch ==
    /\ pc = "found"
    /\ op = "get_active_task"
    /\ IF db_path = None
       THEN pc' = "done" /\ ret' = None
       ELSE IF EndsWithDb(db_path)
            THEN pc' = "connect" /\ UNCHANGED ret
            ELSE pc' = "done" /\ ret' = None
    /\ UNCHANGED <<fs, code_changes, before, cwd, op, args, i, db_path,
                   hashes, conn, exc, result, phase_state, opened, nCalls,
                   nExternal>>

GetConnect ==
    /\ pc = "connect"
    /\ op = "get_active_task"
    /\ \E ok \in BOOLEAN : Connect(ok)
    /\ UNCHANGED <<code_changes, before, cwd, op, args, i, db_path, hashes,
                   exc, result, phase_state, nCalls, nExternal>>

\* SELECT ps.current_task_id, t.title, t.plan_id, p.spec_id
\* FROM phase_state ps LEFT JOIN tasks t ... LEFT JOIN plans p ...
\* WHERE ps.id = 1 AND ps.current_task_id IS NOT NULL
LeftJoinPlans(ps, t) ==
    LET ms == {p \in plans : p.plan_id = t.plan_id}
    IN IF ms = {}
       THEN {[current_task_id |-> ps.current_task_id, title |-> t.title,
              plan_id |-> t.plan_id, spec_id |-> Null]}
       ELSE {[current_task_id |-> ps.current_task_id, title |-> t.title,
              plan_id |-> t.plan_id, spec_id |-> p.spec_id] : p \in ms}

LeftJoinTasks(ps) ==
    LET ms == {t \in tasks : t.task_id = ps.current_task_id}
    IN IF ms = {}
       THEN {[current_task_id |-> ps.current_task_id, title |-> Null,
              plan_id |-> Null, spec_id |-> Null]}
       ELSE UNION {LeftJoinPlans(ps, t) : t \in ms}

\* Mutant of ActiveTaskQuery: the WHERE clause without IS NOT NULL.
ActiveTaskQueryAnyPointer(table) ==
    UNION {LeftJoinTasks(ps) : ps \in {r \in table : r.id = 1}}

ActiveTaskQuery(table) ==
    UNION {LeftJoinTasks(ps) :
             ps \in {r \in table : r.id = 1 /\ r.current_task_id # Null}}

\* .fetchone(), then dict(row) if row else None
FetchOne(rows) ==
    IF rows = {}
    THEN None
    ELSE [tag |-> "dict", row |-> CHOOSE r \in rows : TRUE]

\* conn.execute(SELECT ...).fetchone(): a file without the schema, a
\* corrupt or a locked store raise sqlite3.Error.
GetExecute ==
    /\ pc = "execute"
    /\ op = "get_active_task"
    /\ \/ /\ fs[conn.dir].db = "store"
          /\ \E table \in PhaseStateTables :
                /\ phase_state' = table
                /\ result' = FetchOne(ActiveTaskQuery(table))
          /\ UNCHANGED exc
       \/ /\ exc' = "sqlite3.Error"
          /\ UNCHANGED <<phase_state, result>>
    /\ pc' = "finally"
    /\ UNCHANGED <<fs, code_changes, before, cwd, op, args, i, db_path,
                   hashes, conn, ret, opened, nCalls, nExternal>>

GetFinally ==
    /\ pc = "finally"
    /\ op = "get_active_task"
    /\ CloseAndLeave
    /\ UNCHANGED <<fs, code_changes, before, cwd, op, args, i, db_path,
                   hashes, exc, result, phase_state, opened, nCalls,
                   nExternal>>

\* ---------------------------------------------------------- record_change
\* The arguments other than the two contents pass through unchanged.
TaskId == "CORE-001-T01"
FilePath == "src/auth.py"
ChangeType == "modify"
ToolUsed == "replace_symbol_body"
SymbolFqn == "src/auth.py:User.authenticate"

Call_record_change ==
    /\ CanCall
    /\ \E cwdResolves \in BOOLEAN : EnterSearch(cwdResolves)
    /\ op' = "record_change"
    /\ \E old \in Contents, new \in Contents :
          args' = [old_content |-> old, new_content |-> new]
    /\ Locals
    /\ UNCHANGED <<fs, code_changes, cwd, nExternal>>

\* Mutant of RecordDispatch: the early return is missing.
RecordDispatchWithoutReturn ==
    /\ pc = "found"
    /\ op = "record_change"
    /\ pc' = "hash"
    /\ UNCHANGED <<fs, code_changes, before, cwd, op, args, i, db_path,
                   hashes, conn, exc, result, phase_state, ret, opened,
                   nCalls, nExternal>>

\* if not db_path: ... return None
RecordDispatch ==
    /\ pc = "found"
    /\ op = "record_change"
    /\ IF db_path = None
       THEN pc' = "done" /\ ret' = None
       ELSE pc' = "hash" /\ UNCHANGED ret
    /\ UNCHANGED <<fs, code_changes, before, cwd, op, args, i, db_path,
                   hashes, conn, exc, result, phase_state, opened, nCalls,
                   nExternal>>

\* "if content": None and the empty string are both falsy.
Truthy(content) == content.tag = "str" /\ content.s # ""
\* str.encode() raises UnicodeEncodeError on a lone surrogate.
Encodable(content) == content.s # Surrogate
\* hashlib.sha256(content.encode()).hexdigest()[:16] if content else None
ContentHash(content) ==
    IF Truthy(content) THEN SubSeq(Sha256Hex(content.s), 1, 2) ELSE NullHash
HashRaises(content) == Truthy(content) /\ ~Encodable(content)

\* Lines 116-122: both hashes, the timestamp, then the test of the suffix.
RecordHash ==
    /\ pc = "hash"
    /\ op = "record_change"
    /\ IF HashRaises(args.old_content) \/ HashRaises(args.new_content)
       THEN /\ ret' = Raised("UnicodeEncodeError")
            /\ pc' = "done"
            /\ UNCHANGED hashes
       ELSE /\ hashes' = [old |-> ContentHash(args.old_content),
                          new |-> ContentHash(args.new_content)]
            /\ IF EndsWithDb(db_path)
               THEN pc' = "connect" /\ UNCHANGED ret
               ELSE pc' = "done" /\ ret' = None
    /\ UNCHANGED <<fs, code_changes, before, cwd, op, args, i, db_path,
                   conn, exc, result, phase_state, opened, nCalls, nExternal>>

RecordConnect ==
    /\ pc = "connect"
    /\ op = "record_change"
    /\ \E ok \in BOOLEAN : Connect(ok)
    /\ UNCHANGED <<code_changes, before, cwd, op, args, i, db_path, hashes,
                   exc, result, phase_state, nCalls, nExternal>>

\* The tuple bound to the INSERT; the timestamp is the logical time of the
\* call.
NewRow ==
    [task_id |-> TaskId, file_path |-> FilePath, symbol_fqn |-> SymbolFqn,
     change_type |-> ChangeType, tool_used |-> ToolUsed,
     old_content_hash |-> hashes.old, new_content_hash |-> hashes.new,
     timestamp |-> nCalls]

\* cursor = conn.execute(INSERT ...): the row joins the open transaction.
Insert(c, row) == [c EXCEPT !.pending = Append(c.pending, row)]

RecordExecute ==
    /\ pc = "execute"
    /\ op = "record_change"
    /\ \/ /\ fs[conn.dir].db = "store"
          /\ conn' = Insert(conn, NewRow)
          /\ result' = [tag |-> "int",
                        v |-> Len(code_changes[conn.dir]) + 1]
          /\ pc' = "commit"
          /\ UNCHANGED exc
       \/ /\ exc' = "sqlite3.Error"
          /\ pc' = "finally"
          /\ UNCHANGED <<conn, result>>
    /\ UNCHANGED <<fs, code_changes, before, cwd, op, args, i, db_path,
                   hashes, phase_state, ret, opened, nCalls, nExternal>>

\* Mutant of Commit: the transaction is applied twice (a retried commit).
CommitReplayed(c, table) == table \o c.pending \o c.pending

\* conn.commit(): the open transaction becomes durable, or the commit
\* fails and the transaction stays open.
Commit(c, table) == table \o c.pending

RecordCommit ==
    /\ pc = "commit"
    /\ op = "record_change"
    /\ \/ /\ code_changes' =
                [code_changes EXCEPT
                    ![conn.dir] = Commit(conn, code_changes[conn.dir])]
          /\ conn' = [conn EXCEPT !.pending = << >>]
          /\ UNCHANGED exc
       \/ /\ exc' = "sqlite3.Error"
          /\ UNCHANGED <<code_changes, conn>>
    /\ pc' = "finally"
    /\ UNCHANGED <<fs, before, cwd, op, args, i, db_path, hashes, result,
                   phase_state, ret, opened, nCalls, nExternal>>

RecordFinally ==
    /\ pc = "finally"
    /\ op = "record_change"
    /\ CloseAndLeave
    /\ UNCHANGED <<fs, code_changes, before, cwd, op, args, i, db_path,
                   hashes, exc, result, phase_state, opened, nCalls,
                   nExternal>>

\* ------------------------------------------------------- external process
\* The tooling that owns the stores creates and removes the markers in the
\* directories of the chain (no operation looks anywhere else).  It
\* leaves a store file alone while a connection holds it open.  "done" is
\* the instant a call returns: what the external process does after a
\* return it does before the first filesystem test of the next call.
CanAct == nExternal < MaxExternal /\ ~conn.open /\ pc # "done"

ExternalCreateStore ==
    /\ CanAct
    /\ \E d \in 1..cwd :
          /\ fs[d].db = "none"
          /\ fs' = [fs EXCEPT ![d].db = "store"]
    /\ nExternal' = nExternal + 1
    /\ UNCHANGED <<code_changes, before, cwd, op, args, pc, i, db_path,
                   hashes, conn, exc, result, phase_state, ret, opened,
                   nCalls>>

ExternalDeleteStore ==
    /\ CanAct
    /\ \E d \in 1..cwd :
          /\ IsRegularFile(fs[d].db)
          /\ fs' = [fs EXCEPT ![d].db = "none"]
          /\ code_changes' = [code_changes EXCEPT ![d] = << >>]
          /\ before' = [before EXCEPT ![d] = << >>]
    /\ nExternal' = nExternal + 1
    /\ UNCHANGED <<cwd, op, args, pc, i, db_path, hashes, conn, exc, result,
                   phase_state, ret, opened, nCalls>>

ExternalToggleGraph ==
    /\ CanAct
    /\ \E d \in 1..cwd :
          /\ fs[d].lin \in {"none", "dir"}
          /\ fs' = [fs EXCEPT ![d].lin = IF fs[d].lin = "none"
                                         THEN "dir" ELSE "none"]
    /\ nExternal' = nExternal + 1
    /\ UNCHANGED <<code_changes, before, cwd, op, args, pc, i, db_path,
                   hashes, conn, exc, result, phase_state, ret, opened,
                   nCalls>>

\* --------------------------------------------------------- specifications
Entries == [db : DbKinds, lin : LinKinds]
NoEntries == [db |-> "none", lin |-> "none"]

TablesOf(tree) ==
    [d \in Dirs |-> IF tree[d].db = "store" THEN <<SeedRow>> ELSE << >>]

InitWith(tree, dir) ==
    /\ fs = tree
    /\ code_changes = TablesOf(tree)
    /\ before = TablesOf(tree)
    /\ cwd = dir
    /\ op = "none"
    /\ args = NoArgs
    /\ pc = "idle"
    /\ i = 1
    /\ db_path = Pending
    /\ hashes = NoHashes
    /\ conn = Closed
    /\ exc = "none"
    /\ result = None
    /\ phase_state = {}
    /\ ret = Pending
    /\ opened = 0
    /\ nCalls = 0
    /\ nExternal = 0

\* The locator on every tree and every working directory.
InitLocate == \E tree \in [Dirs -> Entries], dir \in Dirs : InitWith(tree, dir)

NextLocate ==
    \/ Call_find_lineage_db
    \/ CheckSqlite
    \/ CheckSurreal
    \/ FindReturn

SpecLocate == InitLocate /\ [][NextLocate]_vars

\* The three operations beside the external process.  The behaviour starts
\* at depth WorkDepth of a tree in which at most one directory of the chain
\* holds markers; the external process adds and removes others.
Init ==
    \E d \in 1..WorkDepth, e \in Entries :
        InitWith([x \in Dirs |-> IF x = d THEN e ELSE NoEntries], WorkDepth)

Next ==
    \/ Call_find_lineage_db
    \/ Call_get_active_task
    \/ Call_record_change
    \/ CheckSqlite
    \/ CheckSurreal
    \/ FindReturn
    \/ GetDispatch
    \/ GetConnect
    \/ GetExecute
    \/ GetFinally
    \/ RecordDispatch
    \/ RecordHash
    \/ RecordConnect
    \/ RecordExecute
    \/ RecordCommit
    \/ RecordFinally
    \/ ExternalCreateStore
    \/ ExternalDeleteStore
    \/ ExternalToggleGraph

Spec == Init /\ [][Next]_vars

\* ------------------------------------------------------------ properties
Returned(o) == pc = "done" /\ op = o
Relational(p) == p.tag = "path" /\ p.name = "lineage.db"
Graph(p) == p.tag = "path" /\ p.name = "lineage"

\* A directory holds a marker when an entry lineage.db exists in its
\* .spectrena or lineage is a directory there.
HasMarker(entry) == entry.db # "none" \/ entry.lin = "dir"

NearestMarker(tree, dir) ==
    LET marked == {d \in 1..dir : HasMarker(tree[d])}
    IN IF marked = {}
       THEN None
       ELSE LET d == CHOOSE x \in marked : \A y \in marked : y <= x
            IN IF tree[d].db # "none"
               THEN PathOf(d, "lineage.db")
               ELSE PathOf(d, "lineage")

\* C1: find_lineage_db returns the marker of the nearest directory of the
\* chain cwd, parent, ..., root that holds a marker, the relational one
\* when that directory holds both, and None when no directory of the chain
\* holds one.
C1_NearestMarkerWins ==
    (Returned("find_lineage_db") /\ ret.tag # "raise")
        => ret = NearestMarker(fs, cwd)

\* A graph marker next to the working directory wins over a store at the
\* root.
C1_Witness ==
    /\ Returned("find_lineage_db")
    /\ cwd = 3
    /\ fs[3] = NoEntries
    /\ fs[2] = [db |-> "none", lin |-> "dir"]
    /\ fs[1].db = "store"
    /\ ret = PathOf(2, "lineage")

\* C8: the relational path is returned only when it is a regular file.
C8_RelationalIsRegularFile ==
    (Returned("find_lineage_db") /\ Relational(ret))
        => IsRegularFile(fs[ret.dir].db)

\* C2: a record_change call that returns an identifier has appended
\* exactly one committed row, the identifier is that row's, and a call that
\* returns anything else has appended none; no call appends more than one
\* row or touches a row that was there.
C2_OneRowOrNone ==
    op = "record_change" =>
        /\ \A d \in Dirs :
              /\ Len(code_changes[d]) - Len(before[d]) \in {0, 1}
              /\ SubSeq(code_changes[d], 1, Len(before[d])) = before[d]
        /\ Cardinality({d \in Dirs : code_changes[d] # before[d]}) <= 1
        /\ (pc = "done" /\ ret.tag = "int") =>
              /\ Relational(db_path)
              /\ code_changes[db_path.dir] = Append(before[db_path.dir], NewRow)
              /\ ret.v = Len(code_changes[db_path.dir])
        /\ (pc = "done" /\ ret.tag # "int") => code_changes = before

\* A row is committed behind the row the store already held.
C2_Witness ==
    /\ Returned("record_change")
    /\ ret = [tag |-> "int", v |-> 2]
    /\ before[db_path.dir] = <<SeedRow>>
    /\ Len(code_changes[db_path.dir]) = 2

TaskOf(id) == {t \in tasks : t.task_id = id}
PlanOf(id) == {p \in plans : p.plan_id = id}

\* C3: get_active_task returns a result exactly when a relational store
\* was located, the query ran without an error and the phase_state row 1
\* holds a task id; the result carries that id and the title, plan and
\* spec reached from it; in every other case in which the locator came
\* back (no store, a graph store, a failed open, a failed query, no row 1,
\* a NULL pointer) the call returns None.
C3_ActiveTaskExactlyWhenPointed ==
    Returned("get_active_task") =>
        LET pointed == {r \in phase_state :
                          r.id = 1 /\ r.current_task_id # Null}
            answered == Relational(db_path) /\ opened = 1 /\ exc = "none"
        IN /\ ret.tag = "dict" <=> (answered /\ pointed # {})
           /\ ret.tag = "dict" =>
                 /\ ret.row.current_task_id # Null
                 /\ \E r \in pointed :
                       /\ ret.row.current_task_id = r.current_task_id
                       /\ IF TaskOf(r.current_task_id) = {}
                          THEN /\ ret.row.title = Null
                               /\ ret.row.plan_id = Null
                               /\ ret.row.spec_id = Null
                          ELSE \E t \in TaskOf(r.current_task_id) :
                                  /\ ret.row.title = t.title
                                  /\ ret.row.plan_id = t.plan_id
                                  /\ IF PlanOf(t.plan_id) = {}
                                     THEN ret.row.spec_id = Null
                                     ELSE \E p \in PlanOf(t.plan_id) :
                                             ret.row.spec_id = p.spec_id
           /\ (db_path # Pending /\ ret.tag # "dict") => ret = None

\* The full chain: the pointer, its task, the task's plan, the plan's spec.
C3_Witness ==
    /\ Returned("get_active_task")
    /\ ret = [tag |-> "dict",
              row |-> [current_task_id |-> "T1", title |-> "first",
                       plan_id |-> "P1", spec_id |-> "S1"]]

\* C4: a hash column of the written row is NULL exactly when the content
\* was absent, and holds the first 16 hexadecimal characters of the SHA-256
\* digest of every content that was given, the empty string included.
C4_HashOfEveryPresentContent ==
    (Returned("record_change") /\ ret.tag = "int") =>
        LET row == code_changes[db_path.dir][ret.v]
        IN /\ row.old_content_hash = NullHash <=> args.old_content = None
           /\ row.new_content_hash = NullHash <=> args.new_content = None
           /\ args.old_content # None =>
                 row.old_content_hash
                     = SubSeq(Sha256Hex(args.old_content.s), 1, 2)
           /\ args.new_content # None =>
                 row.new_content_hash
                     = SubSeq(Sha256Hex(args.new_content.s), 1, 2)

\* C5: no call ends with an exception.
C5_NoExceptionEscapes == pc = "done" => ret.tag # "raise"

\* C6: when the locator finds no marker, record_change returns None at
\* once: no connection is opened, no row is appended to any store, and
\* neither a hash nor a row is left behind.
C6_NoStoreNoRecord ==
    (op = "record_change" /\ db_path = None) =>
        /\ pc \in {"found", "done"}
        /\ pc = "done" => ret = None
        /\ opened = 0
        /\ conn = Closed
        /\ hashes = NoHashes
        /\ code_changes = before

C6_Witness ==
    /\ Returned("record_change")
    /\ db_path = None
    /\ ret = None
    /\ args = [old_content |-> Str("a"), new_content |-> Str("a")]

\* C7: with a graph-embedded store located, get_active_task and
\* record_change return None without an exception, open no connection and
\* write nothing.
C7_GraphStoreReturnsNone ==
    (pc = "done" /\ op \in {"get_active_task", "record_change"}
        /\ Graph(db_path))
        => /\ ret = None
           /\ opened = 0
           /\ code_changes = before

\* C9: a call opens at most one connection, a connection is open only
\* between the open and the finally clause, and none is open once the call
\* has returned.
C9_ConnectionClosedOnEveryExit ==
    /\ opened <= 1
    /\ conn.open => pc \in {"execute", "commit", "finally"}
    /\ pc \in {"idle", "done"} => conn = Closed

\* The insert failed and the connection was still released.
C9_Witness ==
    /\ Returned("record_change")
    /\ opened = 1
    /\ exc = "sqlite3.Error"
    /\ conn = Closed
    /\ ret = None

\* C10: only the external process brings a file lineage.db into being: a
\* step that is not its own never turns a missing path into an entry.
C10_NeverCreatesStoreFile ==
    [][nExternal' = nExternal
         => \A d \in Dirs : fs[d].db = "none" => fs'[d].db = "none"]_vars
====
